---- MODULE Spec2Model ----
(***************************************************************************)
(* Model of experiments/downstream/create_latent_dataset_from_checkpoint.py *)
(* (enf-jax): the one-shot pipeline that merges the checkpointed config     *)
(* with the invocation's config, builds the loaders, the coordinate grid    *)
(* and the trainer, restores the checkpoint, validates the latent-dataset   *)
(* settings, opens the tracking run and calls the latent dataset routine.   *)
(*                                                                          *)
(* Strings and paths are sequences of tokens, so that concatenation         *)
(* (f-strings, Path.resolve) is real concatenation.  Python's None is the   *)
(* reserved value None below.  Grid coordinates are exact fractions         *)
(* <<numerator, denominator>> in lowest terms.                              *)
(***************************************************************************)
EXTENDS Integers, Sequences, FiniteSets, TLC

VARIABLES pc, invocation, conf, disk_cfg, enf_cfg, trainset, testset,
          image_shape, coords, model_cfg, enf_trainer, enf_state,
          wandb_run, latent_args, calls

vars == <<pc, invocation, conf, disk_cfg, enf_cfg, trainset, testset,
          image_shape, coords, model_cfg, enf_trainer, enf_state,
          wandb_run, latent_args, calls>>

-----------------------------------------------------------------------------
(* Bounds and input domains *)

MaxDim == 3

Dims == 1..MaxDim

Channels == {1, 3}

\* <<num_signals_train, num_signals_test, batch_size, fit_codes_num_epochs>>
\* of the invocation: every field takes two values, in every pairing.
InvocationNumbers == {<<1, 2, 1, 2>>, <<2, 1, 2, 1>>, <<2, 2, 1, 1>>, <<1, 1, 2, 2>>}

None == <<"<None>">>

EmptyStr == <<>>

Cwd == <<"/", "work">>

HydraOutputDir == <<"/", "work", "outputs", "run">>

CheckpointDirs == {None, EmptyStr, <<"ckpt">>, <<"/", "work", "ckpt">>}

LogDirs == {None, EmptyStr, <<"/", "logs">>, <<"/", "work", "ckpt">>}

InvocationNames == {None, EmptyStr, <<"stl10">>}

SavedNames == {<<"cifar10">>, <<"stl10">>}

Unset == [set |-> FALSE]

-----------------------------------------------------------------------------
(* Pure helpers *)

\* Python truthiness of an optional string config value.
Truthy(v) == v # None /\ v # EmptyStr

\* str() as applied inside an f-string.
Str(v) == IF v = None THEN <<"None">> ELSE v

IsAbsolute(p) == Len(p) > 0 /\ p[1] = "/"

\* Path(p).resolve(): a relative path is anchored at the working directory.
Resolve(p) == IF IsAbsolute(p) THEN p ELSE Cwd \o p

RunName(name) == <<"latent-dataset-">> \o Str(name)

RECURSIVE Gcd(_, _)
Gcd(a, b) == IF b = 0 THEN a ELSE Gcd(b, a % b)

Abs(a) == IF a < 0 THEN -a ELSE a

\* The fraction n/d (d > 0) in lowest terms.
Frac(n, d) == LET g == Gcd(Abs(n), d) IN <<n \div g, d \div g>>

LinspaceNoEndpoint(n) == [i \in 1..n |-> Frac(2 * (i - 1) - n, n)]

\* jnp.linspace(-1, 1, n) with the endpoint included: n = 1 yields [-1].
Linspace(n) ==
  IF n = 1 THEN << Frac(-1, 1) >>
  ELSE [i \in 1..n |-> Frac(2 * (i - 1) - (n - 1), n - 1)]

\* jnp.meshgrid(x, y) with the default indexing='xy': two arrays of shape
\* (len(y), len(x)); the first repeats x along the rows, the second
\* repeats y along the columns.
Meshgrid(x, y) ==
  << [r \in 1..Len(y) |-> [c \in 1..Len(x) |-> x[c]]],
     [r \in 1..Len(y) |-> [c \in 1..Len(x) |-> y[r]]] >>

\* jnp.stack(arrays, axis=-1) of two equally shaped 2-D arrays.
Stack(g) ==
  [r \in 1..Len(g[1]) |-> [c \in 1..Len(g[1][r]) |-> <<g[1][r][c], g[2][r][c]>>]]

\* .reshape(-1, 2) of an (R, Cn, 2) array: rows in C (row-major) order.
Reshape(a) ==
  LET R  == Len(a)
      Cn == IF R = 0 THEN 0 ELSE Len(a[1])
  IN [k \in 1..(R * Cn) |-> a[((k - 1) \div Cn) + 1][((k - 1) % Cn) + 1]]

CoordGrid(shape) == Reshape(Stack(Meshgrid(Linspace(shape[1]), Linspace(shape[2]))))

-----------------------------------------------------------------------------
(* Configurations *)

InvocationConfigs ==
  { [ checkpoint_dir |-> d,
      logging        |-> [log_dir |-> l, debug |-> dbg],
      dataset        |-> [name |-> nm,
                          num_signals_train |-> n[1],
                          num_signals_test  |-> n[2]],
      training       |-> [batch_size |-> n[3], fit_codes_num_epochs |-> n[4]],
      latent_dataset |-> [load |-> ld, store_if_new |-> st] ] :
    d \in CheckpointDirs, l \in LogDirs, dbg \in BOOLEAN,
    nm \in InvocationNames, n \in InvocationNumbers,
    ld \in BOOLEAN, st \in BOOLEAN }

\* The .hydra/config.yaml saved with the checkpoint.
SavedConfigs ==
  [ logging  : [log_dir : {<<"/", "train", "run">>}],
    dataset  : [name : SavedNames,
                num_signals_train : {3}, num_signals_test : {1},
                batch_size : {2}, image_shape : {<<9, 9, 9>>}],
    test     : [min_num_epochs : {1}],
    nef      : [num_in : {7}, num_out : {7}],
    has_meta : BOOLEAN ]

OverlayKeepBatch(cfg, c) ==
  [cfg EXCEPT !.dataset.name = IF Truthy(c.dataset.name) THEN c.dataset.name
                               ELSE cfg.dataset.name,
              !.dataset.num_signals_train = c.dataset.num_signals_train,
              !.dataset.num_signals_test = c.dataset.num_signals_test,
              !.test.min_num_epochs = c.training.fit_codes_num_epochs]

\* Lines 32-36: overwrite the dataset specs of the checkpointed config.
Overlay(cfg, c) ==
  [cfg EXCEPT !.dataset.name = IF Truthy(c.dataset.name) THEN c.dataset.name
                               ELSE cfg.dataset.name,
              !.dataset.num_signals_train = c.dataset.num_signals_train,
              !.dataset.num_signals_test = c.dataset.num_signals_test,
              !.dataset.batch_size = c.training.batch_size,
              !.test.min_num_epochs = c.training.fit_codes_num_epochs]

\* get_dataloader(dataset_cfg): the loader of one split of the dataset.
Loader(split, dataset_cfg) ==
  [set |-> TRUE, split |-> split, name |-> dataset_cfg.name,
   num_signals |-> IF split = "train" THEN dataset_cfg.num_signals_train
                   ELSE dataset_cfg.num_signals_test,
   batch_size |-> dataset_cfg.batch_size]

Trainer(kind, cfg) ==
  [set |-> TRUE, kind |-> kind, config |-> cfg,
   train_loader |-> trainset, val_loader |-> testset,
   coords |-> coords, seed |-> 42]

-----------------------------------------------------------------------------
(* The pipeline *)

Init ==
  /\ pc = "assert_checkpoint_dir"
  /\ invocation \in InvocationConfigs
  /\ conf = invocation
  /\ disk_cfg \in SavedConfigs
  /\ enf_cfg = Unset
  /\ trainset = Unset
  /\ testset = Unset
  /\ image_shape = <<>>
  /\ coords = <<>>
  /\ model_cfg = Unset
  /\ enf_trainer = Unset
  /\ enf_state = Unset
  /\ wandb_run = Unset
  /\ latent_args = Unset
  /\ calls = <<>>

AssertCheckpointDirNotNone ==
  /\ pc = "assert_checkpoint_dir"
  /\ pc' = IF conf.checkpoint_dir # None THEN "resolve_checkpoint_dir"
           ELSE "assertion_error"
  /\ UNCHANGED <<invocation, conf, disk_cfg, enf_cfg, trainset, testset,
                 image_shape, coords, model_cfg, enf_trainer, enf_state,
                 wandb_run, latent_args, calls>>

\* Line 19: assert conf.checkpoint_dir
AssertCheckpointDir ==
  /\ pc = "assert_checkpoint_dir"
  /\ pc' = IF Truthy(conf.checkpoint_dir) THEN "resolve_checkpoint_dir"
           ELSE "assertion_error"
  /\ UNCHANGED <<invocation, conf, disk_cfg, enf_cfg, trainset, testset,
                 image_shape, coords, model_cfg, enf_trainer, enf_state,
                 wandb_run, latent_args, calls>>

\* Line 20
ResolveCheckpointDir ==
  /\ pc = "resolve_checkpoint_dir"
  /\ conf' = [conf EXCEPT !.checkpoint_dir = Resolve(conf.checkpoint_dir)]
  /\ pc' = "set_log_dir"
  /\ UNCHANGED <<invocation, disk_cfg, enf_cfg, trainset, testset,
                 image_shape, coords, model_cfg, enf_trainer, enf_state,
                 wandb_run, latent_args, calls>>

SetLogDirAlways ==
  /\ pc = "set_log_dir"
  /\ conf' = [conf EXCEPT !.logging.log_dir = HydraOutputDir]
  /\ pc' = "load_config"
  /\ UNCHANGED <<invocation, disk_cfg, enf_cfg, trainset, testset,
                 image_shape, coords, model_cfg, enf_trainer, enf_state,
                 wandb_run, latent_args, calls>>

\* Lines 23-25
SetLogDir ==
  /\ pc = "set_log_dir"
  /\ conf' = IF ~Truthy(conf.logging.log_dir)
             THEN [conf EXCEPT !.logging.log_dir = HydraOutputDir]
             ELSE conf
  /\ pc' = "load_config"
  /\ UNCHANGED <<invocation, disk_cfg, enf_cfg, trainset, testset,
                 image_shape, coords, model_cfg, enf_trainer, enf_state,
                 wandb_run, latent_args, calls>>

\* Line 28: OmegaConf.load of the config saved in the checkpoint directory
LoadConfig ==
  /\ pc = "load_config"
  /\ enf_cfg' = disk_cfg
  /\ calls' = Append(calls, "OmegaConf.load")
  /\ pc' = "set_enf_log_dir"
  /\ UNCHANGED <<invocation, conf, disk_cfg, trainset, testset,
                 image_shape, coords, model_cfg, enf_trainer, enf_state,
                 wandb_run, latent_args>>

\* Line 29
SetEnfLogDir ==
  /\ pc = "set_enf_log_dir"
  /\ enf_cfg' = [enf_cfg EXCEPT !.logging.log_dir = conf.checkpoint_dir]
  /\ pc' = "overwrite_dataset_specs"
  /\ UNCHANGED <<invocation, conf, disk_cfg, trainset, testset,
                 image_shape, coords, model_cfg, enf_trainer, enf_state,
                 wandb_run, latent_args, calls>>

\* Lines 32-36
OverwriteDatasetSpecs ==
  /\ pc = "overwrite_dataset_specs"
  /\ enf_cfg' = Overlay(enf_cfg, conf)
  /\ pc' = "get_dataloader"
  /\ UNCHANGED <<invocation, conf, disk_cfg, trainset, testset,
                 image_shape, coords, model_cfg, enf_trainer, enf_state,
                 wandb_run, latent_args, calls>>

\* Line 39
GetDataloader ==
  /\ pc = "get_dataloader"
  /\ trainset' = Loader("train", enf_cfg.dataset)
  /\ testset' = Loader("test", enf_cfg.dataset)
  /\ calls' = Append(calls, "get_dataloader")
  /\ pc' = "get_image_shape"
  /\ UNCHANGED <<invocation, conf, disk_cfg, enf_cfg,
                 image_shape, coords, model_cfg, enf_trainer, enf_state,
                 wandb_run, latent_args>>

\* Lines 42-45: the shape of the first sample of the first training batch
GetImageShape ==
  /\ pc = "get_image_shape"
  /\ \E h \in Dims, w \in Dims, c \in Channels :
       /\ image_shape' = <<h, w, c>>
       /\ enf_cfg' = [enf_cfg EXCEPT !.dataset.image_shape = <<h, w, c>>]
  /\ pc' = "create_grid"
  /\ UNCHANGED <<invocation, conf, disk_cfg, trainset, testset,
                 coords, model_cfg, enf_trainer, enf_state,
                 wandb_run, latent_args, calls>>

\* Lines 48-49
CreateGrid ==
  /\ pc = "create_grid"
  /\ coords' = CoordGrid(image_shape)
  /\ pc' = "set_dims"
  /\ UNCHANGED <<invocation, conf, disk_cfg, enf_cfg, trainset, testset,
                 image_shape, model_cfg, enf_trainer, enf_state,
                 wandb_run, latent_args, calls>>

SetDimsWidth ==
  /\ pc = "set_dims"
  /\ enf_cfg' = [enf_cfg EXCEPT !.nef.num_in = 2,
                                !.nef.num_out = image_shape[2]]
  /\ pc' = "get_trainer"
  /\ UNCHANGED <<invocation, conf, disk_cfg, trainset, testset,
                 image_shape, coords, model_cfg, enf_trainer, enf_state,
                 wandb_run, latent_args, calls>>

\* Lines 52-53
SetDims ==
  /\ pc = "set_dims"
  /\ enf_cfg' = [enf_cfg EXCEPT !.nef.num_in = 2,
                                !.nef.num_out = image_shape[Len(image_shape)]]
  /\ pc' = "get_trainer"
  /\ UNCHANGED <<invocation, conf, disk_cfg, trainset, testset,
                 image_shape, coords, model_cfg, enf_trainer, enf_state,
                 wandb_run, latent_args, calls>>

BuildTrainer(kind) ==
  /\ model_cfg' = enf_cfg
  /\ enf_trainer' = Trainer(kind, enf_cfg)
  /\ calls' = calls \o <<"get_model", kind>>
  /\ pc' = "create_functions"
  /\ UNCHANGED <<invocation, conf, disk_cfg, enf_cfg, trainset, testset,
                 image_shape, coords, enf_state, wandb_run, latent_args>>

BuildSingleLevelTrainerInverted ==
  /\ pc = "get_trainer"
  /\ enf_cfg.has_meta
  /\ BuildTrainer("AutoDecodingENFTrainerImage")

\* Lines 56-67: no "meta" section
BuildSingleLevelTrainer ==
  /\ pc = "get_trainer"
  /\ ~enf_cfg.has_meta
  /\ BuildTrainer("AutoDecodingENFTrainerImage")

\* Lines 68-80: "meta" section present
BuildMetaTrainer ==
  /\ pc = "get_trainer"
  /\ enf_cfg.has_meta
  /\ BuildTrainer("MetaSGDAutoDecodingENFTrainerImage")

\* Line 82
CreateFunctions ==
  /\ pc = "create_functions"
  /\ calls' = Append(calls, "create_functions")
  /\ pc' = "load_checkpoint"
  /\ UNCHANGED <<invocation, conf, disk_cfg, enf_cfg, trainset, testset,
                 image_shape, coords, model_cfg, enf_trainer, enf_state,
                 wandb_run, latent_args>>

\* Line 85
LoadCheckpoint ==
  /\ pc = "load_checkpoint"
  /\ enf_state' = [set |-> TRUE, restored_by |-> enf_trainer.kind]
  /\ calls' = Append(calls, "load_checkpoint")
  /\ pc' = "close_prog_bar"
  /\ UNCHANGED <<invocation, conf, disk_cfg, enf_cfg, trainset, testset,
                 image_shape, coords, model_cfg, enf_trainer,
                 wandb_run, latent_args>>

CloseProgBarThenWandb ==
  /\ pc = "close_prog_bar"
  /\ calls' = calls \o <<"prog_bar.close", "wandb.init">>
  /\ pc' = "assert_not_load"
  /\ UNCHANGED <<invocation, conf, disk_cfg, enf_cfg, trainset, testset,
                 image_shape, coords, model_cfg, enf_trainer, enf_state,
                 wandb_run, latent_args>>

\* Line 88
CloseProgBar ==
  /\ pc = "close_prog_bar"
  /\ calls' = Append(calls, "prog_bar.close")
  /\ pc' = "assert_not_load"
  /\ UNCHANGED <<invocation, conf, disk_cfg, enf_cfg, trainset, testset,
                 image_shape, coords, model_cfg, enf_trainer, enf_state,
                 wandb_run, latent_args>>

\* Line 91: assert not conf.latent_dataset.load
AssertNotLoad ==
  /\ pc = "assert_not_load"
  /\ pc' = IF ~conf.latent_dataset.load THEN "assert_store_if_new"
           ELSE "assertion_error"
  /\ UNCHANGED <<invocation, conf, disk_cfg, enf_cfg, trainset, testset,
                 image_shape, coords, model_cfg, enf_trainer, enf_state,
                 wandb_run, latent_args, calls>>

AssertStoreIfNewSkipped ==
  /\ pc = "assert_store_if_new"
  /\ pc' = "wandb_init"
  /\ calls' = Append(calls, "validated")
  /\ UNCHANGED <<invocation, conf, disk_cfg, enf_cfg, trainset, testset,
                 image_shape, coords, model_cfg, enf_trainer, enf_state,
                 wandb_run, latent_args>>

\* Line 92: assert conf.latent_dataset.store_if_new
AssertStoreIfNew ==
  /\ pc = "assert_store_if_new"
  /\ pc' = IF conf.latent_dataset.store_if_new THEN "wandb_init"
           ELSE "assertion_error"
  /\ calls' = IF conf.latent_dataset.store_if_new
              THEN Append(calls, "validated") ELSE calls
  /\ UNCHANGED <<invocation, conf, disk_cfg, enf_cfg, trainset, testset,
                 image_shape, coords, model_cfg, enf_trainer, enf_state,
                 wandb_run, latent_args>>

\* Lines 95-102
WandbInit ==
  /\ pc = "wandb_init"
  /\ wandb_run' = [set |-> TRUE,
                   entity |-> "equivariance",
                   project |-> "enf-jax-dataset-creation",
                   name |-> RunName(conf.dataset.name),
                   dir |-> conf.logging.log_dir,
                   config |-> enf_cfg,
                   mode |-> IF conf.logging.debug THEN "disabled" ELSE "online"]
  /\ calls' = Append(calls, "wandb.init")
  /\ pc' = "create_latent_dataset"
  /\ UNCHANGED <<invocation, conf, disk_cfg, enf_cfg, trainset, testset,
                 image_shape, coords, model_cfg, enf_trainer, enf_state,
                 latent_args>>

\* Line 105
CreateLatentDataset ==
  /\ pc = "create_latent_dataset"
  /\ latent_args' = [set |-> TRUE, conf |-> conf, enf_trainer |-> enf_trainer,
                     enf_state |-> enf_state]
  /\ calls' = Append(calls, "get_or_create_latent_dataset_from_enf")
  /\ pc' = "done"
  /\ UNCHANGED <<invocation, conf, disk_cfg, enf_cfg, trainset, testset,
                 image_shape, coords, model_cfg, enf_trainer, enf_state,
                 wandb_run>>

Next ==
  \/ AssertCheckpointDir
  \/ ResolveCheckpointDir
  \/ SetLogDir
  \/ LoadConfig
  \/ SetEnfLogDir
  \/ OverwriteDatasetSpecs
  \/ GetDataloader
  \/ GetImageShape
  \/ CreateGrid
  \/ SetDims
  \/ BuildSingleLevelTrainer
  \/ BuildMetaTrainer
  \/ CreateFunctions
  \/ LoadCheckpoint
  \/ CloseProgBar
  \/ AssertNotLoad
  \/ AssertStoreIfNew
  \/ WandbInit
  \/ CreateLatentDataset

Spec == Init /\ [][Next]_vars

-----------------------------------------------------------------------------
(* Derived notions used by the properties *)

Terminated == pc \in {"done", "assertion_error"}

Count(name) == Cardinality({k \in 1..Len(calls) : calls[k] = name})

\* TRUE iff both calls occurred and the first occurrence of a precedes b's.
Before(a, b) ==
  \E i \in 1..Len(calls), j \in 1..Len(calls) :
     calls[i] = a /\ calls[j] = b /\ i < j

TrainerKinds == {"AutoDecodingENFTrainerImage", "MetaSGDAutoDecodingENFTrainerImage"}

TrainersBuilt == Cardinality({k \in 1..Len(calls) : calls[k] \in TrainerKinds})

-----------------------------------------------------------------------------
(* Properties *)

LatentCall == "get_or_create_latent_dataset_from_enf"

\* C1: the latent dataset routine is invoked only after the checkpoint has
\* been restored, the validation has passed and the tracking run has been
\* initialised; the tracking run is initialised only after the validation
\* has passed; each of these steps happens at most once per run.
C1_StepOrder ==
  /\ \A s \in {"load_checkpoint", "validated", "wandb.init", LatentCall} :
        Count(s) <= 1
  /\ Count(LatentCall) > 0 =>
        /\ Before("load_checkpoint", LatentCall)
        /\ Before("validated", LatentCall)
        /\ Before("wandb.init", LatentCall)
  /\ Count("wandb.init") > 0 => Before("validated", "wandb.init")

C1_Witness ==
  /\ pc = "done"
  /\ Before("load_checkpoint", "validated")
  /\ Before("wandb.init", LatentCall)

\* C2 (as claimed): after the merge the dataset name, the sample counts, the
\* batch size and the minimum fitting epochs of the merged configuration
\* are all the invocation's values.
C2_MergedIsInvocation ==
  trainset.set =>
     /\ enf_cfg.dataset.name = invocation.dataset.name
     /\ enf_cfg.dataset.num_signals_train = invocation.dataset.num_signals_train
     /\ enf_cfg.dataset.num_signals_test = invocation.dataset.num_signals_test
     /\ enf_cfg.dataset.batch_size = invocation.training.batch_size
     /\ enf_cfg.test.min_num_epochs = invocation.training.fit_codes_num_epochs

\* C2 (amended): after the merge the sample counts, the batch size and the
\* minimum fitting epochs are the invocation's values; the dataset name is
\* the invocation's value when that is non-empty and the checkpointed name
\* when the invocation leaves it unset or empty.
C2_MergedOverlay ==
  trainset.set =>
     /\ Truthy(invocation.dataset.name) =>
           enf_cfg.dataset.name = invocation.dataset.name
     /\ ~Truthy(invocation.dataset.name) =>
           enf_cfg.dataset.name = disk_cfg.dataset.name
     /\ enf_cfg.dataset.num_signals_train = invocation.dataset.num_signals_train
     /\ enf_cfg.dataset.num_signals_test = invocation.dataset.num_signals_test
     /\ enf_cfg.dataset.batch_size = invocation.training.batch_size
     /\ enf_cfg.test.min_num_epochs = invocation.training.fit_codes_num_epochs

C2_Witness ==
  /\ trainset.set
  /\ ~Truthy(invocation.dataset.name)
  /\ enf_cfg.dataset.name = disk_cfg.dataset.name
  /\ invocation.training.batch_size # disk_cfg.dataset.batch_size
  /\ enf_cfg.dataset.batch_size = invocation.training.batch_size
  /\ invocation.dataset.num_signals_test # disk_cfg.dataset.num_signals_test

\* C3: a run never constructs more than one trainer and one that reaches
\* trainer construction constructs exactly one; it is the meta-learned
\* trainer iff the checkpointed configuration has a "meta" section and the
\* single-level trainer iff it has none; either variant receives the merged
\* config, the train/test loaders, the coordinate grid and seed 42.
C3_TrainerVariant ==
  /\ TrainersBuilt <= 1
  /\ pc = "done" => TrainersBuilt = 1
  /\ enf_trainer # Unset =>
        /\ TrainersBuilt = 1
        /\ Count("get_model") = 1
        /\ enf_trainer.kind = "MetaSGDAutoDecodingENFTrainerImage" <=> disk_cfg.has_meta
        /\ enf_trainer.kind = "AutoDecodingENFTrainerImage" <=> ~disk_cfg.has_meta
        /\ enf_trainer.config = enf_cfg
        /\ enf_trainer.train_loader = trainset
        /\ enf_trainer.val_loader = testset
        /\ enf_trainer.train_loader.split = "train"
        /\ enf_trainer.val_loader.split = "test"
        /\ enf_trainer.coords = coords
        /\ enf_trainer.coords # <<>>
        /\ enf_trainer.seed = 42

C3_Witness ==
  /\ enf_trainer # Unset
  /\ enf_trainer.kind = "MetaSGDAutoDecodingENFTrainerImage"
  /\ disk_cfg.has_meta
  /\ pc = "create_functions"

\* C4: with latent_dataset.load true or latent_dataset.store_if_new false a
\* run never initialises the tracking run nor invokes the latent dataset
\* routine and can only end in an assertion failure; with load false and
\* store_if_new true a run that reaches the validation passes it and ends
\* having done both.
C4_Validation ==
  /\ (invocation.latent_dataset.load \/ ~invocation.latent_dataset.store_if_new) =>
        /\ wandb_run = Unset
        /\ latent_args = Unset
        /\ Count("wandb.init") = 0
        /\ Count(LatentCall) = 0
        /\ Count("validated") = 0
        /\ Terminated => pc = "assertion_error"
  /\ (~invocation.latent_dataset.load /\ invocation.latent_dataset.store_if_new) =>
        /\ (Terminated /\ Count("prog_bar.close") > 0) =>
              /\ pc = "done"
              /\ Count("validated") = 1
              /\ wandb_run # Unset
              /\ latent_args # Unset
        /\ pc = "assertion_error" => calls = <<>>

C4_Witness ==
  /\ pc = "assertion_error"
  /\ Count("load_checkpoint") = 1
  /\ ~invocation.latent_dataset.load
  /\ ~invocation.latent_dataset.store_if_new

\* The fraction v equals the i-th (0-based) of n evenly spaced points from
\* -1 to 1.
IsPoint(v, i, n) ==
  /\ v[2] > 0
  /\ IF n = 1 THEN v[1] = -v[2]
     ELSE v[1] * (n - 1) = (2 * i - (n - 1)) * v[2]

EvenlySpaced(S, n) ==
  /\ Cardinality(S) = n
  /\ \A i \in 0..(n - 1) : \E v \in S : IsPoint(v, i, n)

\* C5: for H, W >= 2 the grid has H*W rows of 2 components, every component
\* lies in [-1, 1], the rows are pairwise distinct, the first component
\* takes exactly H evenly spaced values from -1 to 1 and the second exactly
\* W, and every pair of values occurs in a row (hence, the rows being
\* distinct, in exactly one).
C5_GridShape ==
  (coords # <<>> /\ image_shape[1] >= 2 /\ image_shape[2] >= 2) =>
     LET H  == image_shape[1]
         W  == image_shape[2]
         S0 == {coords[k][1] : k \in 1..Len(coords)}
         S1 == {coords[k][2] : k \in 1..Len(coords)}
     IN /\ Len(coords) = H * W
        /\ \A k \in 1..Len(coords) :
              /\ Len(coords[k]) = 2
              /\ \A c \in 1..2 :
                    /\ coords[k][c][2] > 0
                    /\ -coords[k][c][2] <= coords[k][c][1]
                    /\ coords[k][c][1] <= coords[k][c][2]
        /\ \A k1, k2 \in 1..Len(coords) : k1 < k2 => coords[k1] # coords[k2]
        /\ EvenlySpaced(S0, H)
        /\ EvenlySpaced(S1, W)
        /\ \A a \in S0, b \in S1 : \E k \in 1..Len(coords) : coords[k] = <<a, b>>

C5_Witness ==
  /\ coords # <<>>
  /\ image_shape[1] = 2
  /\ image_shape[2] = 3
  /\ Len(coords) = 6

\* C6: when the model is built and the trainer constructed, the merged
\* configuration carries dataset.image_shape equal to the shape of the first
\* training sample, nef.num_in = 2 and nef.num_out equal to the last
\* dimension of that shape, whatever the checkpoint had saved.
C6_ShapeFields ==
  model_cfg # Unset =>
     /\ model_cfg.dataset.image_shape = image_shape
     /\ model_cfg.nef.num_in = 2
     /\ model_cfg.nef.num_out = image_shape[3]
     /\ enf_trainer.config.dataset.image_shape = image_shape
     /\ enf_trainer.config.nef.num_in = 2
     /\ enf_trainer.config.nef.num_out = image_shape[3]

C6_Witness ==
  /\ model_cfg # Unset
  /\ image_shape = <<3, 2, 1>>
  /\ disk_cfg.nef.num_out # 1
  /\ disk_cfg.dataset.image_shape # image_shape

\* C7: with checkpoint_dir unset or empty the run fails its first assertion
\* and nothing else happens: no config is loaded, no loader built, no
\* trainer constructed, no checkpoint restored, no tracking run initialised
\* and the latent dataset routine is not invoked.
C7_NoCheckpointDir ==
  ~Truthy(invocation.checkpoint_dir) =>
     /\ pc \in {"assert_checkpoint_dir", "assertion_error"}
     /\ calls = <<>>
     /\ conf = invocation
     /\ enf_cfg = Unset
     /\ trainset = Unset
     /\ testset = Unset
     /\ model_cfg = Unset
     /\ enf_trainer = Unset
     /\ enf_state = Unset
     /\ wandb_run = Unset
     /\ latent_args = Unset

C7_Witness ==
  /\ pc = "assertion_error"
  /\ invocation.checkpoint_dir = EmptyStr
  /\ calls = <<>>

\* The absolute form of the invocation's checkpoint directory.
ResolvedCheckpointDir ==
  IF invocation.checkpoint_dir[1] = "/" THEN invocation.checkpoint_dir
  ELSE <<"/", "work">> \o invocation.checkpoint_dir

\* C8: a set invocation log_dir is left unchanged and an unset one becomes
\* the launcher's output directory; the merged configuration's log_dir is
\* the resolved checkpoint directory, which is what the trainer is given,
\* and the tracking run writes to the invocation's logging directory.
C8_Directories ==
  /\ enf_cfg # Unset =>
        /\ Truthy(invocation.logging.log_dir) =>
              conf.logging.log_dir = invocation.logging.log_dir
        /\ ~Truthy(invocation.logging.log_dir) =>
              conf.logging.log_dir = HydraOutputDir
        /\ conf.checkpoint_dir = ResolvedCheckpointDir
  /\ trainset.set => enf_cfg.logging.log_dir = ResolvedCheckpointDir
  /\ enf_trainer # Unset =>
        enf_trainer.config.logging.log_dir = ResolvedCheckpointDir
  /\ wandb_run # Unset =>
        /\ wandb_run.dir = conf.logging.log_dir
        /\ wandb_run.config.logging.log_dir = ResolvedCheckpointDir

C8_Witness ==
  /\ wandb_run # Unset
  /\ invocation.checkpoint_dir = <<"ckpt">>
  /\ invocation.logging.log_dir = <<"/", "logs">>
  /\ wandb_run.dir = <<"/", "logs">>
  /\ enf_trainer.config.logging.log_dir = <<"/", "work", "ckpt">>

\* C9 (as claimed): row k = i*W + j of the grid is the normalised position
\* of pixel (i, j): its first component, sampled with image_shape[0]
\* points, is the i-th of H points and its second the j-th of W points.
C9_RowMajorPixels ==
  coords # <<>> =>
     LET H == image_shape[1]
         W == image_shape[2]
     IN /\ Len(coords) = H * W
        /\ \A i \in 0..(H - 1), j \in 0..(W - 1) :
              /\ IsPoint(coords[i * W + j + 1][1], i, H)
              /\ IsPoint(coords[i * W + j + 1][2], j, W)

\* C10 (as claimed): in a run that reaches the latent dataset routine, the
\* dataset name the loaders were built from is the name in the tracking
\* run's name and the name in the configuration handed to the routine.
C10_OneDatasetName ==
  latent_args # Unset =>
     /\ trainset.name = enf_cfg.dataset.name
     /\ wandb_run.name = <<"latent-dataset-">> \o trainset.name
     /\ latent_args.conf.dataset.name = trainset.name

====
